---- MODULE Spec2Model ----
(***************************************************************************)
(* The basic_encryptor example of self_encryption: a disk based chunk      *)
(* store (DiskBasedStorage), the data map file next to the chunks, and     *)
(* main's encrypt and decrypt paths, as a state machine.                   *)
(*                                                                         *)
(* The storage directory is a function from file names (sequences of       *)
(* characters) to file contents (sequences of bytes).  File system calls   *)
(* can fail: every call of the program takes a fault chosen by the         *)
(* environment.  The SelfEncryptor and the data map codec live in the      *)
(* library crate; they are modelled from the interface description.        *)
(***************************************************************************)
EXTENDS Integers, Sequences, FiniteSets, TLC

(***************************************************************************)
(* Bounds of the model.                                                    *)
(***************************************************************************)
\* invocations of the tool in one behaviour
MaxRuns == 3
\* interventions of the environment on the storage directory in one behaviour
MaxEnv == 1

(***************************************************************************)
(* Constants of the library, scaled down.                                  *)
(***************************************************************************)
\* self_encryption::MAX_FILE_SIZE (1 GiB in the library)
MAX_FILE_SIZE == 4
\* bytes of source data per chunk
CHUNK_SIZE == 2
\* bytes of an address (32 for sha3_256)
ADDR_LEN == 3

\* the longest source file: one byte over the size limit
MaxLen == MAX_FILE_SIZE + 1
\* source files are the beginnings of these byte patterns
Patterns == {<<255, 0, 255, 0, 255, 0>>, <<0, 255, 255>>}

VARIABLES
    dir,        \* the storage directory: file name -> content
    source,     \* the file at <target>: [exists, bytes]
    dest,       \* the file at <destination>: [exists, bytes]
    args,       \* the parsed command line
    pc,         \* main's position
    outcome,    \* what the invocation reported
    data,       \* main's buffer `data`
    data_map,   \* the session's data map: [some, chunks]
    queue,      \* chunks the session still has to put
    content,    \* bytes the session has read back so far
    lastOp,     \* the last call on the storage in this invocation
    putLog,     \* address -> the last put there: [ok, data] (SpecStore only)
    dir0,       \* the directory when the invocation started
    dest0,      \* the destination when the invocation started
    faulted,    \* whether a file system call failed in this invocation
    lastEnc,    \* the last completed encryption: [valid, bytes]
    runs,       \* invocations started
    envs        \* interventions of the environment

vars == <<dir, source, dest, args, pc, outcome, data, data_map, queue, content,
          lastOp, putLog, dir0, dest0, faulted, lastEnc, runs, envs>>

(***************************************************************************)
(* Bytes, sequences.                                                       *)
(***************************************************************************)
Prefix(s, k) == SubSeq(s, 1, k)

\* where a failing write_all stops: half way
Cuts(bytes) == {Len(bytes) \div 2} \cap (0..(Len(bytes) - 1))

RECURSIVE Concat(_)
Concat(ss) == IF ss = <<>> THEN <<>> ELSE Head(ss) \o Concat(Tail(ss))

(***************************************************************************)
(* to_hex, file_name, calculate_path.                                      *)
(***************************************************************************)
HexDigits == <<"0", "1", "2", "3", "4", "5", "6", "7",
               "8", "9", "a", "b", "c", "d", "e", "f">>

\* format!("{:x}", ch): no zero padding, one character for a byte below 16
to_hex_nopad(ch) ==
    IF ch < 16 THEN <<HexDigits[ch + 1]>>
    ELSE <<HexDigits[(ch \div 16) + 1], HexDigits[(ch % 16) + 1]>>

\* format!("{:02x}", ch)
to_hex(ch) == <<HexDigits[(ch \div 16) + 1], HexDigits[(ch % 16) + 1]>>

RECURSIVE file_name(_)
file_name(name) ==
    IF name = <<>> THEN <<>> ELSE to_hex(Head(name)) \o file_name(Tail(name))

\* storage_path joined with file_name(name): the file's name in the directory
calculate_path(name) == file_name(name)

\* the data map kept under a name of hex digits, as the chunks are
data_map_file_chunk == <<"0", "0", "2", "5", "4", "b">>

\* chunk_store_dir joined with "data_map"
data_map_file == <<"d", "a", "t", "a", "_", "m", "a", "p">>

(***************************************************************************)
(* generate_address: sha3_256 of the data.  The model's hash is a          *)
(* positional code of the bytes, ADDR_LEN bytes wide; it has no collision  *)
(* on the chunks of the model, as sha3_256 has none in practice.           *)
(***************************************************************************)
RECURSIVE Digest(_, _)
Digest(h, bytes) ==
    IF bytes = <<>> THEN h
    ELSE Digest((h * 257 + Head(bytes) + 1) % (256 * 256 * 256), Tail(bytes))

sha3_256(bytes) ==
    LET h == Digest(0, bytes)
    IN  <<h \div 65536, (h \div 256) % 256, h % 256>>

generate_address(bytes) == sha3_256(bytes)

(***************************************************************************)
(* Results and faults.                                                     *)
(***************************************************************************)
Ok(bytes) == [ok |-> TRUE, kind |-> "none", data |-> bytes]
Err(kind) == [ok |-> FALSE, kind |-> kind, data |-> <<>>]

NoFault == [kind |-> "none", cut |-> 0]

\* File::open of an existing file fails, or read_to_end fails after cut bytes
GetFaults(d, name) ==
    {NoFault} \cup
    IF calculate_path(name) \in DOMAIN d
    THEN {[kind |-> "open", cut |-> 0]} \cup
         {[kind |-> "read", cut |-> k] : k \in 0..Len(d[calculate_path(name)])}
    ELSE {}

\* File::create fails, or write_all fails after cut bytes
PutFaults(bytes) ==
    {NoFault, [kind |-> "create", cut |-> 0]} \cup
    {[kind |-> "write", cut |-> k] : k \in Cuts(bytes)}

WriteFile(d, path, bytes) ==
    [p \in DOMAIN d \cup {path} |-> IF p = path THEN bytes ELSE d[p]]

(***************************************************************************)
(* impl Storage for DiskBasedStorage.                                      *)
(***************************************************************************)
\* get with a missing file read as an empty chunk
get_lenient(d, name, f) ==
    LET path == calculate_path(name)
    IN  IF path \notin DOMAIN d THEN Ok(<<>>)
        ELSE IF f.kind = "open" THEN Err("IOFailure")
        ELSE IF f.kind = "read" THEN Ok(Prefix(d[path], f.cut))
        ELSE Ok(d[path])

get(d, name, f) ==
    LET path == calculate_path(name)
    IN  IF path \notin DOMAIN d THEN Err("NotFound")
        ELSE IF f.kind = "open" THEN Err("IOFailure")
        ELSE IF f.kind = "read" THEN Ok(Prefix(d[path], f.cut))
        ELSE Ok(d[path])

\* put with one write call in place of write_all: a short write passes for success
put_partial(d, name, bytes, f) ==
    LET path == calculate_path(name)
    IN  IF f.kind = "create" THEN [dir |-> d, res |-> Err("IOFailure")]
        ELSE IF f.kind = "write"
        THEN [dir |-> WriteFile(d, path, Prefix(bytes, f.cut)),
              res |-> Err("IOFailure")]
        ELSE [dir |-> WriteFile(d, path, Prefix(bytes, (Len(bytes) + 1) \div 2)),
              res |-> Ok(<<>>)]

\* put with the file opened for appending in place of File::create
put_append(d, name, bytes, f) ==
    LET path == calculate_path(name)
        old == IF path \in DOMAIN d THEN d[path] ELSE <<>>
    IN  IF f.kind = "create" THEN [dir |-> d, res |-> Err("IOFailure")]
        ELSE IF f.kind = "write"
        THEN [dir |-> WriteFile(d, path, old \o Prefix(bytes, f.cut)),
              res |-> Err("IOFailure")]
        ELSE [dir |-> WriteFile(d, path, old \o bytes), res |-> Ok(<<>>)]

\* put with the file opened for writing without truncation: what an older,
\* longer content had beyond the new bytes stays
put_noTruncate(d, name, bytes, f) ==
    LET path == calculate_path(name)
        old == IF path \in DOMAIN d THEN d[path] ELSE <<>>
        Over(new) == new \o SubSeq(old, Len(new) + 1, Len(old))
    IN  IF f.kind = "create" THEN [dir |-> d, res |-> Err("IOFailure")]
        ELSE IF f.kind = "write"
        THEN [dir |-> WriteFile(d, path, Over(Prefix(bytes, f.cut))),
              res |-> Err("IOFailure")]
        ELSE [dir |-> WriteFile(d, path, Over(bytes)), res |-> Ok(<<>>)]

put(d, name, bytes, f) ==
    LET path == calculate_path(name)
    IN  IF f.kind = "create" THEN [dir |-> d, res |-> Err("IOFailure")]
        ELSE IF f.kind = "write"
        THEN [dir |-> WriteFile(d, path, Prefix(bytes, f.cut)),
              res |-> Err("IOFailure")]
        ELSE [dir |-> WriteFile(d, path, bytes), res |-> Ok(<<>>)]

\* the file at a path of the directory: [exists, bytes]
FileAt(d, path) ==
    IF path \in DOMAIN d THEN [exists |-> TRUE, bytes |-> d[path]]
    ELSE [exists |-> FALSE, bytes |-> <<>>]

\* a call on the storage; for a put, `before` is the file it found at the path
NoOp == [op |-> "none", name |-> <<>>, data |-> <<>>, fault |-> NoFault,
         res |-> Ok(<<>>), before |-> FileAt(<<>>, <<>>)]

GetOp(name, f, res) ==
    [op |-> "get", name |-> name, data |-> <<>>, fault |-> f, res |-> res,
     before |-> FileAt(<<>>, <<>>)]

PutOp(d, name, bytes, f, res) ==
    [op |-> "put", name |-> name, data |-> bytes, fault |-> f, res |-> res,
     before |-> FileAt(d, calculate_path(name))]

LogPut(log, name, bytes, res) ==
    [a \in DOMAIN log \cup {name} |->
        IF a = name THEN [ok |-> res.ok, data |-> bytes] ELSE log[a]]

(***************************************************************************)
(* The library: SelfEncryptor and test_helpers::{serialise, deserialise}.  *)
(* A session splits the data written at offset 0 into chunks of            *)
(* CHUNK_SIZE bytes, obfuscates each with a pad that depends on its        *)
(* position, stores it at generate_address(obfuscated bytes), and on close *)
(* returns the data map: for each chunk its address and its source size.   *)
(***************************************************************************)
RECURSIVE Split(_)
Split(bytes) ==
    IF Len(bytes) <= CHUNK_SIZE
    THEN IF bytes = <<>> THEN <<>> ELSE <<bytes>>
    ELSE <<Prefix(bytes, CHUNK_SIZE)>> \o
         Split(SubSeq(bytes, CHUNK_SIZE + 1, Len(bytes)))

Pad(i) == (37 * i) % 256

EncryptChunk(i, piece) == [k \in 1..Len(piece) |-> (piece[k] + Pad(i)) % 256]

DecryptChunk(i, bytes) == [k \in 1..Len(bytes) |-> (bytes[k] + 256 - Pad(i)) % 256]

\* what write(data, 0) hands to the storage, in order
EncryptedChunks(bytes) ==
    LET pieces == Split(bytes)
    IN  [i \in 1..Len(pieces) |-> EncryptChunk(i, pieces[i])]

\* what close() returns after write(data, 0)
DataMapOf(bytes) ==
    LET pieces == Split(bytes)
    IN  [some |-> TRUE,
         chunks |-> [i \in 1..Len(pieces) |->
                        [hash |-> generate_address(EncryptChunk(i, pieces[i])),
                         source_size |-> Len(pieces[i])]]]

NoDataMap == [some |-> FALSE, chunks |-> <<>>]

\* the chunk count, then address and source size of each chunk
serialise(dm) ==
    <<Len(dm.chunks)>> \o
    Concat([i \in 1..Len(dm.chunks) |->
               dm.chunks[i].hash \o <<dm.chunks[i].source_size>>])

deserialise(bytes) ==
    IF bytes = <<>> THEN NoDataMap
    ELSE IF Len(bytes) # 1 + Head(bytes) * (ADDR_LEN + 1) THEN NoDataMap
    ELSE [some |-> TRUE,
          chunks |-> [i \in 1..Head(bytes) |->
                        [hash |-> SubSeq(bytes, 2 + (i - 1) * (ADDR_LEN + 1),
                                         1 + (i - 1) * (ADDR_LEN + 1) + ADDR_LEN),
                         source_size |-> bytes[1 + i * (ADDR_LEN + 1)]]]]

(***************************************************************************)
(* The command line, as the usage patterns admit it.                       *)
(***************************************************************************)
NoArgs == [flag_help |-> FALSE, flag_encrypt |-> FALSE, flag_decrypt |-> FALSE,
           arg_target |-> FALSE, arg_destination |-> FALSE]

\* a usage that also admits -e <target> -d <destination> together
USAGE_both ==
    {[NoArgs EXCEPT !.flag_help = TRUE],
     [NoArgs EXCEPT !.flag_encrypt = TRUE, !.arg_target = TRUE],
     [NoArgs EXCEPT !.flag_decrypt = TRUE, !.arg_destination = TRUE],
     [NoArgs EXCEPT !.flag_encrypt = TRUE, !.arg_target = TRUE,
                    !.flag_decrypt = TRUE, !.arg_destination = TRUE]}

\* arg_target and arg_destination: whether the Option is Some
USAGE ==
    {[NoArgs EXCEPT !.flag_help = TRUE],
     [NoArgs EXCEPT !.flag_encrypt = TRUE, !.arg_target = TRUE],
     [NoArgs EXCEPT !.flag_decrypt = TRUE, !.arg_destination = TRUE]}

NoFile == [exists |-> FALSE, bytes |-> <<>>]
File(bytes) == [exists |-> TRUE, bytes |-> bytes]

\* what <target> can be: no file, or a file of up to MaxLen bytes
SourceFiles ==
    {NoFile} \cup
    UNION {{File(Prefix(p, n)) : n \in 0..(IF Len(p) < MaxLen THEN Len(p) ELSE MaxLen)} :
              p \in Patterns}

Init ==
    /\ dir = <<>>
    /\ source = NoFile
    /\ dest = NoFile
    /\ args = NoArgs
    /\ pc = "idle"
    /\ outcome = "none"
    /\ data = <<>>
    /\ data_map = NoDataMap
    /\ queue = <<>>
    /\ content = <<>>
    /\ lastOp = NoOp
    /\ putLog = <<>>
    /\ dir0 = <<>>
    /\ dest0 = NoFile
    /\ faulted = FALSE
    /\ lastEnc = [valid |-> FALSE, bytes |-> <<>>]
    /\ runs = 0
    /\ envs = 0

(***************************************************************************)
(* The storage on its own: get and put called with any address and chunk.  *)
(***************************************************************************)
StoreChunks == {<<>>, <<0>>, <<0, 255>>}
StoreNames == {generate_address(c) : c \in StoreChunks}

workflow == <<source, dest, args, pc, outcome, data, data_map, queue, content,
              dir0, dest0, faulted, lastEnc, runs, envs>>

StorePut ==
    \E name \in StoreNames, bytes \in StoreChunks :
      \E f \in PutFaults(bytes) :
        LET r == put(dir, name, bytes, f)
        IN  /\ dir' = r.dir
            /\ lastOp' = PutOp(dir, name, bytes, f, r.res)
            /\ putLog' = LogPut(putLog, name, bytes, r.res)
            /\ UNCHANGED workflow

StoreGet ==
    \E name \in StoreNames :
      \E f \in GetFaults(dir, name) :
        /\ lastOp' = GetOp(name, f, get(dir, name, f))
        /\ UNCHANGED <<dir, putLog>>
        /\ UNCHANGED workflow

NextStore == StorePut \/ StoreGet

SpecStore == Init /\ [][NextStore]_vars

(***************************************************************************)
(* main.  One action per step of the encrypt and decrypt paths; a path     *)
(* ends in "done" (main returned) or in "panicked" (an expect or unwrap!   *)
(* failed).                                                                *)
(***************************************************************************)
session == <<data, data_map, queue, content>>
ghosts == <<putLog, dir0, dest0, lastEnc, runs, envs>>

\* the tool is started, and the storage directory is made anew
Start_fresh ==
    /\ pc = "idle"
    /\ runs < MaxRuns
    /\ \E a \in USAGE :
         /\ args' = a
         /\ \E s \in SourceFiles :
              /\ source' = s
              /\ a.flag_encrypt \/ s = NoFile
    /\ pc' = "e_guard"
    /\ runs' = runs + 1
    /\ dir' = <<>>
    /\ dir0' = <<>>
    /\ dest0' = dest
    /\ lastEnc' = [valid |-> FALSE, bytes |-> <<>>]
    /\ UNCHANGED <<dest, outcome, session, lastOp, putLog, faulted, envs>>

\* the tool is started: the command line is parsed, the directory exists
Start ==
    /\ pc = "idle"
    /\ runs < MaxRuns
    /\ \E a \in USAGE :
         /\ args' = a
         /\ \E s \in SourceFiles :
              /\ source' = s
              /\ a.flag_encrypt \/ s = NoFile
    /\ pc' = "e_guard"
    /\ runs' = runs + 1
    /\ dir0' = dir
    /\ dest0' = dest
    /\ UNCHANGED <<dir, dest, outcome, session, lastOp, putLog, faulted,
                   lastEnc, envs>>

\* if args.flag_encrypt && args.arg_target.is_some()
EGuard ==
    /\ pc = "e_guard"
    /\ pc' = IF args.flag_encrypt /\ args.arg_target THEN "e_open" ELSE "d_guard"
    /\ UNCHANGED <<dir, source, dest, args, outcome, session, lastOp,
                   faulted, ghosts>>

\* the data map file created before the source is opened
EOpen_createFirst ==
    /\ pc = "e_open"
    /\ dir' = WriteFile(dir, data_map_file, <<>>)
    /\ \E fault \in {FALSE} \cup {source.exists} :
         IF ~source.exists \/ fault
         THEN /\ outcome' = "SourceUnreadable"
              /\ pc' = "d_guard"
              /\ faulted' = (faulted \/ fault)
         ELSE /\ pc' = "e_meta"
              /\ UNCHANGED <<outcome, faulted>>
    /\ UNCHANGED <<source, dest, args, session, lastOp, ghosts>>

\* File::open(target); on failure "Failed to open", and main goes on
EOpen ==
    /\ pc = "e_open"
    /\ \E fault \in {FALSE} \cup {source.exists} :
         IF ~source.exists \/ fault
         THEN /\ outcome' = "SourceUnreadable"
              /\ pc' = "d_guard"
              /\ faulted' = (faulted \/ fault)
         ELSE /\ pc' = "e_meta"
              /\ UNCHANGED <<outcome, faulted>>
    /\ UNCHANGED <<dir, source, dest, args, session, lastOp, ghosts>>

\* the size check off by one
TooLarge_off(len) == len > MAX_FILE_SIZE + 1

\* metadata.len() > MAX_FILE_SIZE
TooLarge(len) == len > MAX_FILE_SIZE

\* file.metadata() and the size check; both ways of failing return
EMeta ==
    /\ pc = "e_meta"
    /\ \E fault \in BOOLEAN :
         IF fault
         THEN /\ outcome' = "SourceReadError"
              /\ pc' = "done"
              /\ faulted' = TRUE
         ELSE /\ IF TooLarge(Len(source.bytes))
                 THEN outcome' = "FileTooLarge" /\ pc' = "done"
                 ELSE outcome' = outcome /\ pc' = "e_read"
              /\ UNCHANGED faulted
    /\ UNCHANGED <<dir, source, dest, args, session, lastOp, ghosts>>

\* read_to_end returning 0 bytes taken for an error
ERead_emptyIsError ==
    /\ pc = "e_read"
    /\ \E fault \in BOOLEAN :
         IF fault \/ source.bytes = <<>>
         THEN /\ outcome' = "SourceReadError"
              /\ pc' = "done"
              /\ faulted' = (faulted \/ fault)
              /\ UNCHANGED data
         ELSE /\ data' = source.bytes
              /\ pc' = "e_write"
              /\ UNCHANGED <<outcome, faulted>>
    /\ UNCHANGED <<dir, source, dest, args, data_map, queue, content, lastOp,
                   ghosts>>

\* file.read_to_end(&mut data); an error returns
ERead ==
    /\ pc = "e_read"
    /\ \E fault \in BOOLEAN :
         IF fault
         THEN /\ outcome' = "SourceReadError"
              /\ pc' = "done"
              /\ faulted' = TRUE
              /\ UNCHANGED data
         ELSE /\ data' = source.bytes
              /\ pc' = "e_write"
              /\ UNCHANGED <<outcome, faulted>>
    /\ UNCHANGED <<dir, source, dest, args, data_map, queue, content, lastOp,
                   ghosts>>

\* SelfEncryptor::new(storage, DataMap::None) and se.write(&data, 0) begin
EWrite ==
    /\ pc = "e_write"
    /\ queue' = EncryptedChunks(data)
    /\ pc' = "e_put"
    /\ UNCHANGED <<dir, source, dest, args, outcome, data, data_map, content,
                   lastOp, faulted, ghosts>>

\* the session puts the next chunk; an error fails write or close, and the
\* expect panics
EPut ==
    /\ pc = "e_put"
    /\ queue # <<>>
    /\ \E f \in PutFaults(Head(queue)) :
         LET name == generate_address(Head(queue))
             r == put(dir, name, Head(queue), f)
         IN  /\ dir' = r.dir
             /\ lastOp' = PutOp(dir, name, Head(queue), f, r.res)
             /\ faulted' = (faulted \/ f # NoFault)
             /\ IF r.res.ok
                THEN /\ queue' = Tail(queue)
                     /\ UNCHANGED <<pc, outcome>>
                ELSE /\ pc' = "panicked"
                     /\ outcome' = "panic"
                     /\ UNCHANGED queue
    /\ lastEnc' = [valid |-> FALSE, bytes |-> <<>>]
    /\ UNCHANGED <<source, dest, args, data, data_map, content, putLog, dir0,
                   dest0, runs, envs>>

\* close without waiting for the chunks still to be put
EClose_early ==
    /\ pc = "e_put"
    /\ data_map' = DataMapOf(data)
    /\ queue' = <<>>
    /\ pc' = "e_dm_create"
    /\ UNCHANGED <<dir, source, dest, args, outcome, data, content,
                   lastOp, faulted, ghosts>>

\* se.close() returns the data map and the storage
EClose ==
    /\ pc = "e_put"
    /\ queue = <<>>
    /\ data_map' = DataMapOf(data)
    /\ pc' = "e_dm_create"
    /\ UNCHANGED <<dir, source, dest, args, outcome, data, queue, content,
                   lastOp, faulted, ghosts>>

\* the data map file opened with create_new: an existing file is an error
EDmCreate_createNew ==
    /\ pc = "e_dm_create"
    /\ \E fault \in BOOLEAN :
         IF fault \/ data_map_file \in DOMAIN dir
         THEN /\ outcome' = "DataMapCreateFailed"
              /\ pc' = "d_guard"
              /\ faulted' = (faulted \/ fault)
              /\ UNCHANGED <<dir, lastEnc>>
         ELSE /\ dir' = WriteFile(dir, data_map_file, <<>>)
              /\ pc' = "e_dm_write"
              /\ lastEnc' = [valid |-> FALSE, bytes |-> <<>>]
              /\ UNCHANGED <<outcome, faulted>>
    /\ UNCHANGED <<source, dest, args, session, lastOp, putLog, dir0, dest0,
                   runs, envs>>

\* File::create(data_map_file); on failure a message, and main goes on
EDmCreate ==
    /\ pc = "e_dm_create"
    /\ \E fault \in BOOLEAN :
         IF fault
         THEN /\ outcome' = "DataMapCreateFailed"
              /\ pc' = "d_guard"
              /\ faulted' = TRUE
              /\ UNCHANGED <<dir, lastEnc>>
         ELSE /\ dir' = WriteFile(dir, data_map_file, <<>>)
              /\ pc' = "e_dm_write"
              /\ lastEnc' = [valid |-> FALSE, bytes |-> <<>>]
              /\ UNCHANGED <<outcome, faulted>>
    /\ UNCHANGED <<source, dest, args, session, lastOp, putLog, dir0, dest0,
                   runs, envs>>

\* file.write_all(&serialise(&data_map)); either way a message
EDmWrite ==
    /\ pc = "e_dm_write"
    /\ LET encoded == serialise(data_map)
       IN  \E k \in Cuts(encoded) \cup {Len(encoded)} :
             /\ dir' = WriteFile(dir, data_map_file, Prefix(encoded, k))
             /\ IF k = Len(encoded)
                THEN /\ outcome' = "encrypted"
                     /\ lastEnc' = [valid |-> TRUE, bytes |-> data]
                     /\ UNCHANGED faulted
                ELSE /\ outcome' = "DataMapWriteFailed"
                     /\ faulted' = TRUE
                     /\ UNCHANGED lastEnc
    /\ pc' = "d_guard"
    /\ UNCHANGED <<source, dest, args, session, lastOp, putLog, dir0, dest0,
                   runs, envs>>

\* if args.flag_decrypt && args.arg_destination.is_some()
DGuard ==
    /\ pc = "d_guard"
    /\ pc' = IF args.flag_decrypt /\ args.arg_destination THEN "d_open" ELSE "done"
    /\ UNCHANGED <<dir, source, dest, args, outcome, session, lastOp,
                   faulted, ghosts>>

\* the first chunk of an empty data map fetched while the file is opened
DOpen_prefetch ==
    /\ pc = "d_open"
    /\ \E fault \in {FALSE} \cup {data_map_file \in DOMAIN dir} :
         IF data_map_file \notin DOMAIN dir \/ fault
         THEN /\ outcome' = "DataMapUnreadable"
              /\ pc' = "done"
              /\ faulted' = (faulted \/ fault)
              /\ UNCHANGED lastOp
         ELSE /\ pc' = "d_load"
              /\ lastOp' = GetOp(generate_address(<<>>), NoFault,
                                 get(dir, generate_address(<<>>), NoFault))
              /\ UNCHANGED <<outcome, faulted>>
    /\ UNCHANGED <<dir, source, dest, args, session, ghosts>>

\* the destination created before the data map file is opened
DOpen_destFirst ==
    /\ pc = "d_open"
    /\ dest' = File(<<>>)
    /\ \E fault \in {FALSE} \cup {data_map_file \in DOMAIN dir} :
         IF data_map_file \notin DOMAIN dir \/ fault
         THEN /\ outcome' = "DataMapUnreadable"
              /\ pc' = "done"
              /\ faulted' = (faulted \/ fault)
         ELSE /\ pc' = "d_load"
              /\ UNCHANGED <<outcome, faulted>>
    /\ UNCHANGED <<dir, source, args, session, lastOp, ghosts>>

\* File::open(data_map_file); on failure "Failed to open data map"
DOpen ==
    /\ pc = "d_open"
    /\ \E fault \in {FALSE} \cup {data_map_file \in DOMAIN dir} :
         IF data_map_file \notin DOMAIN dir \/ fault
         THEN /\ outcome' = "DataMapUnreadable"
              /\ pc' = "done"
              /\ faulted' = (faulted \/ fault)
         ELSE /\ pc' = "d_load"
              /\ UNCHANGED <<outcome, faulted>>
    /\ UNCHANGED <<dir, source, dest, args, session, lastOp, ghosts>>

\* unwrap!(file.read_to_end(&mut data))
DLoad ==
    /\ pc = "d_load"
    /\ \E fault \in BOOLEAN :
         IF fault
         THEN /\ outcome' = "panic"
              /\ pc' = "panicked"
              /\ faulted' = TRUE
              /\ UNCHANGED data
         ELSE /\ data' = dir[data_map_file]
              /\ pc' = "d_parse"
              /\ UNCHANGED <<outcome, faulted>>
    /\ UNCHANGED <<dir, source, dest, args, data_map, queue, content, lastOp,
                   ghosts>>

\* a data map that does not parse taken for an empty one
DParse_lenient ==
    /\ pc = "d_parse"
    /\ LET dm == deserialise(data)
       IN  data_map' = IF dm.some THEN dm ELSE [some |-> TRUE, chunks |-> <<>>]
    /\ pc' = "d_create"
    /\ UNCHANGED <<dir, source, dest, args, outcome, data, queue, content,
                   lastOp, faulted, ghosts>>

\* deserialise::<DataMap>(&data); None is "possible corruption";
\* Some seeds the session
DParse ==
    /\ pc = "d_parse"
    /\ LET dm == deserialise(data)
       IN  IF dm.some
           THEN /\ data_map' = dm
                /\ pc' = "d_create"
                /\ UNCHANGED outcome
           ELSE /\ outcome' = "ParseFailure"
                /\ pc' = "done"
                /\ UNCHANGED data_map
    /\ UNCHANGED <<dir, source, dest, args, data, queue, content, lastOp,
                   faulted, ghosts>>

\* the destination left alone until the bytes are written
DCreate_late ==
    /\ pc = "d_create"
    /\ queue' = [i \in 1..Len(data_map.chunks) |-> data_map.chunks[i].hash]
    /\ content' = <<>>
    /\ pc' = "d_read"
    /\ UNCHANGED <<dir, source, dest, args, outcome, data, data_map, lastOp,
                   faulted, ghosts>>

\* File::create(destination), then se.read(0, length) begins
DCreate ==
    /\ pc = "d_create"
    /\ \E fault \in BOOLEAN :
         IF fault
         THEN /\ outcome' = "DestinationUnwritable"
              /\ pc' = "done"
              /\ faulted' = TRUE
              /\ UNCHANGED <<dest, queue, content>>
         ELSE /\ dest' = File(<<>>)
              /\ queue' = [i \in 1..Len(data_map.chunks) |-> data_map.chunks[i].hash]
              /\ content' = <<>>
              /\ pc' = "d_read"
              /\ UNCHANGED <<outcome, faulted>>
    /\ UNCHANGED <<dir, source, args, data, data_map, lastOp, ghosts>>

\* the session gets the next chunk; an error fails read, and the expect panics
DGet ==
    /\ pc = "d_read"
    /\ queue # <<>>
    /\ \E f \in GetFaults(dir, Head(queue)) :
         LET r == get(dir, Head(queue), f)
             i == Len(data_map.chunks) - Len(queue) + 1
         IN  /\ lastOp' = GetOp(Head(queue), f, r)
             /\ faulted' = (faulted \/ f # NoFault)
             /\ IF r.ok
                THEN /\ content' = content \o DecryptChunk(i, r.data)
                     /\ queue' = Tail(queue)
                     /\ UNCHANGED <<pc, outcome>>
                ELSE /\ pc' = "panicked"
                     /\ outcome' = "panic"
                     /\ UNCHANGED <<queue, content>>
    /\ UNCHANGED <<dir, source, dest, args, data, data_map, ghosts>>

\* file.write_all(&content); either way a message
DWrite ==
    /\ pc = "d_read"
    /\ queue = <<>>
    /\ \E k \in Cuts(content) \cup {Len(content)} :
         /\ dest' = File(Prefix(content, k))
         /\ IF k = Len(content)
            THEN outcome' = "decrypted" /\ UNCHANGED faulted
            ELSE outcome' = "DestinationWriteFailed" /\ faulted' = TRUE
    /\ pc' = "done"
    /\ UNCHANGED <<dir, source, args, session, lastOp, ghosts>>

\* the process is gone; the directory and the destination stay
Exit ==
    /\ pc \in {"done", "panicked"}
    /\ pc' = "idle"
    /\ args' = NoArgs
    /\ source' = NoFile
    /\ outcome' = "none"
    /\ data' = <<>>
    /\ data_map' = NoDataMap
    /\ queue' = <<>>
    /\ content' = <<>>
    /\ lastOp' = NoOp
    /\ faulted' = FALSE
    /\ dir0' = dir
    /\ dest0' = dest
    /\ UNCHANGED <<dir, dest, putLog, lastEnc, runs, envs>>

(***************************************************************************)
(* The environment, between invocations: the data map file is cut short,   *)
(* or a chunk file is removed.                                             *)
(***************************************************************************)
EnvTruncateDataMap ==
    /\ pc = "idle"
    /\ envs < MaxEnv
    /\ data_map_file \in DOMAIN dir
    /\ \E k \in Cuts(dir[data_map_file]) :
         dir' = WriteFile(dir, data_map_file, Prefix(dir[data_map_file], k))
    /\ dir0' = dir'
    /\ envs' = envs + 1
    /\ lastEnc' = [valid |-> FALSE, bytes |-> <<>>]
    /\ UNCHANGED <<source, dest, args, pc, outcome, session, lastOp, putLog,
                   dest0, faulted, runs>>

EnvRemoveChunk ==
    /\ pc = "idle"
    /\ envs < MaxEnv
    /\ \E p \in DOMAIN dir \ {data_map_file} :
         dir' = [q \in DOMAIN dir \ {p} |-> dir[q]]
    /\ dir0' = dir'
    /\ envs' = envs + 1
    /\ lastEnc' = [valid |-> FALSE, bytes |-> <<>>]
    /\ UNCHANGED <<source, dest, args, pc, outcome, session, lastOp, putLog,
                   dest0, faulted, runs>>

Next ==
    \/ Start \/ EGuard \/ EOpen \/ EMeta \/ ERead \/ EWrite \/ EPut \/ EClose
    \/ EDmCreate \/ EDmWrite
    \/ DGuard \/ DOpen \/ DLoad \/ DParse \/ DCreate \/ DGet \/ DWrite
    \/ Exit \/ EnvTruncateDataMap \/ EnvRemoveChunk

\* the steps of a running invocation
Step ==
    \/ EGuard \/ EOpen \/ EMeta \/ ERead \/ EWrite \/ EPut \/ EClose
    \/ EDmCreate \/ EDmWrite
    \/ DGuard \/ DOpen \/ DLoad \/ DParse \/ DCreate \/ DGet \/ DWrite

Spec == Init /\ [][Next]_vars

\* every file system and session call returns: a running invocation goes on
FairSpec == Spec /\ WF_vars(Step)

(***************************************************************************)
(* Properties.                                                             *)
(***************************************************************************)

\* C1: a decrypt run that follows a completed encryption of N bytes,
\* 0 < N < MAX_FILE_SIZE, with the directory untouched since and no file
\* system call failing, ends with "decrypted" and the destination holding
\* exactly the N source bytes.
RoundTrip ==
    ( /\ args.flag_decrypt
      /\ pc \in {"done", "panicked"}
      /\ lastEnc.valid
      /\ ~faulted
      /\ Len(lastEnc.bytes) > 0
      /\ Len(lastEnc.bytes) < MAX_FILE_SIZE )
    => ( /\ pc = "done"
         /\ outcome = "decrypted"
         /\ dest = File(lastEnc.bytes) )

\* a two-chunk file has come back
RoundTripWitness ==
    /\ args.flag_decrypt
    /\ pc = "done"
    /\ outcome = "decrypted"
    /\ lastEnc.valid
    /\ ~faulted
    /\ Len(lastEnc.bytes) = CHUNK_SIZE + 1
    /\ Len(lastEnc.bytes) < MAX_FILE_SIZE
    /\ dest = File(lastEnc.bytes)

\* C2: a get that meets no fault, at an address whose last put was
\* put(generate_address(c), c) and succeeded, returns Ok(c).
WriteThenRead ==
    ( /\ lastOp.op = "get"
      /\ lastOp.fault = NoFault
      /\ lastOp.name \in DOMAIN putLog
      /\ putLog[lastOp.name].ok
      /\ lastOp.name = generate_address(putLog[lastOp.name].data) )
    => lastOp.res = Ok(putLog[lastOp.name].data)

\* a two-byte chunk read back at its address, other addresses written too
WriteThenReadWitness ==
    /\ lastOp.op = "get"
    /\ lastOp.fault = NoFault
    /\ lastOp.name \in DOMAIN putLog
    /\ putLog[lastOp.name].ok
    /\ lastOp.name = generate_address(putLog[lastOp.name].data)
    /\ Len(putLog[lastOp.name].data) = 2
    /\ Cardinality(DOMAIN putLog) > 1
    /\ lastOp.res = Ok(putLog[lastOp.name].data)

\* C3: a get at an address that was never the target of a put, or whose
\* file does not exist, returns Err(NotFound), not Ok of anything.
NeverWrittenNotFound ==
    ( /\ lastOp.op = "get"
      /\ \/ lastOp.name \notin DOMAIN putLog
         \/ calculate_path(lastOp.name) \notin DOMAIN dir )
    => lastOp.res = Err("NotFound")

\* such a get, with other addresses written
NeverWrittenWitness ==
    /\ lastOp.op = "get"
    /\ lastOp.name \notin DOMAIN putLog
    /\ DOMAIN dir # {}
    /\ lastOp.res = Err("NotFound")

\* C4: a get whose read_to_end fails returns Err(IOFailure).
ReadErrorFails ==
    (lastOp.op = "get" /\ lastOp.fault.kind = "read")
    => lastOp.res = Err("IOFailure")

\* C5: no invocation panics: every error ends in a message and a return.
NoPanic == pc # "panicked"

\* C6: the data map file is created and written only when the session has
\* no chunk left to put, and whenever it holds the data map of this encrypt
\* run, every chunk of that data map has a file in the directory.
EncryptOrdering ==
    /\ pc \in {"e_dm_create", "e_dm_write"} => (queue = <<>> /\ data_map.some)
    /\ ( /\ args.flag_encrypt
         /\ data_map.some
         /\ data_map_file \in DOMAIN dir
         /\ dir[data_map_file] = serialise(data_map) )
       => \A i \in 1..Len(data_map.chunks) :
             calculate_path(data_map.chunks[i].hash) \in DOMAIN dir

\* a two-chunk data map has been written
EncryptOrderingWitness ==
    /\ args.flag_encrypt
    /\ outcome = "encrypted"
    /\ Len(data_map.chunks) = 2
    /\ dir[data_map_file] = serialise(data_map)
    /\ lastOp.op = "put"

\* C7: a get is issued in an invocation only when the data map file has
\* been read in full and its bytes have deserialised to the session's data
\* map.
DecryptOrdering ==
    lastOp.op = "get"
    => ( /\ args.flag_decrypt
         /\ pc \in {"d_read", "done", "panicked"}
         /\ data_map.some
         /\ data = dir[data_map_file]
         /\ deserialise(data) = data_map )

\* the first chunk has been fetched, one more to go
DecryptOrderingWitness ==
    /\ lastOp.op = "get"
    /\ lastOp.res.ok
    /\ pc = "d_read"
    /\ Len(queue) = 1
    /\ deserialise(data) = data_map

\* C8: an encrypt run on a source longer than MAX_FILE_SIZE leaves the
\* directory as it was, issues no put, never gets past the size check, and
\* when no file system call fails it ends with FileTooLarge.
FileTooLargeNoPut ==
    ( /\ args.flag_encrypt
      /\ source.exists
      /\ Len(source.bytes) > MAX_FILE_SIZE )
    => ( /\ dir = dir0
         /\ lastOp.op = "none"
         /\ pc \in {"e_guard", "e_open", "e_meta", "d_guard", "done"}
         /\ (pc = "done" /\ ~faulted) => outcome = "FileTooLarge" )

\* FileTooLarge reported with chunks of an earlier run in the directory
FileTooLargeWitness ==
    /\ args.flag_encrypt
    /\ Len(source.bytes) = MAX_FILE_SIZE + 1
    /\ pc = "done"
    /\ outcome = "FileTooLarge"
    /\ DOMAIN dir0 # {}
    /\ dir = dir0

\* C9: a decrypt run with no data map file ends with DataMapUnreadable,
\* with no get issued and the destination as it was.
NoDataMapNoDecrypt ==
    ( /\ args.flag_decrypt
      /\ data_map_file \notin DOMAIN dir
      /\ pc \notin {"idle", "e_guard", "d_guard", "d_open"} )
    => ( /\ pc = "done"
         /\ outcome = "DataMapUnreadable"
         /\ lastOp.op = "none"
         /\ dest = dest0 )

\* such a run, with chunks but no data map in the directory
NoDataMapWitness ==
    /\ args.flag_decrypt
    /\ data_map_file \notin DOMAIN dir
    /\ DOMAIN dir # {}
    /\ pc = "done"
    /\ outcome = "DataMapUnreadable"
    /\ dest = dest0

\* C10: a decrypt run on a data map file whose bytes do not deserialise
\* issues no get and leaves the destination as it was; when no file system
\* call fails it ends with ParseFailure.
CorruptDataMapFails ==
    ( /\ args.flag_decrypt
      /\ data_map_file \in DOMAIN dir
      /\ ~deserialise(dir[data_map_file]).some
      /\ pc \notin {"idle", "e_guard", "d_guard", "d_open", "d_load", "d_parse"} )
    => ( /\ lastOp.op = "none"
         /\ dest = dest0
         /\ pc \in {"done", "panicked"}
         /\ ~faulted => (pc = "done" /\ outcome = "ParseFailure") )

\* ParseFailure on a data map file cut short, a destination already there
CorruptDataMapWitness ==
    /\ args.flag_decrypt
    /\ data_map_file \in DOMAIN dir
    /\ dir[data_map_file] # <<>>
    /\ ~deserialise(dir[data_map_file]).some
    /\ pc = "done"
    /\ outcome = "ParseFailure"
    /\ dest0.exists
    /\ dest = dest0


\* C11: an encrypt run on a zero-length source that meets no fault ends
\* with "encrypted" and no put; a decrypt run that follows it, with the
\* directory untouched and no fault, ends with "decrypted" and a zero-length
\* destination.
ZeroLengthRoundTrip ==
    /\ ( /\ args.flag_encrypt
         /\ source = File(<<>>)
         /\ ~faulted
         /\ pc \in {"done", "panicked"} )
       => ( /\ pc = "done"
            /\ outcome = "encrypted"
            /\ lastOp.op = "none"
            /\ lastEnc = [valid |-> TRUE, bytes |-> <<>>] )
    /\ ( /\ args.flag_decrypt
         /\ pc \in {"done", "panicked"}
         /\ lastEnc.valid
         /\ ~faulted
         /\ lastEnc.bytes = <<>> )
       => ( /\ pc = "done"
            /\ outcome = "decrypted"
            /\ lastOp.op = "none"
            /\ dest = File(<<>>) )

\* a zero-length file has come back, with chunks of an earlier file around
ZeroLengthWitness ==
    /\ args.flag_decrypt
    /\ pc = "done"
    /\ outcome = "decrypted"
    /\ lastEnc = [valid |-> TRUE, bytes |-> <<>>]
    /\ ~faulted
    /\ DOMAIN dir # {data_map_file}
    /\ dest = File(<<>>)


\* main's positions on the encrypt path and on the decrypt path
EncryptSteps ==
    {"e_open", "e_meta", "e_read", "e_write", "e_put", "e_dm_create", "e_dm_write"}
DecryptSteps == {"d_open", "d_load", "d_parse", "d_create", "d_read"}

\* C12: no invocation runs both paths: the command line never carries both
\* flags, the encrypt path runs only under -e and leaves the destination
\* alone, the decrypt path runs only under -d, starts with nothing reported
\* and leaves the directory alone.
OneAction ==
    /\ ~(args.flag_encrypt /\ args.flag_decrypt)
    /\ pc \in EncryptSteps => (args.flag_encrypt /\ dest = dest0)
    /\ pc \in DecryptSteps =>
         (args.flag_decrypt /\ outcome = "none" /\ dir = dir0 /\ lastOp.op # "put")
    /\ pc \in {"done", "panicked"} =>
         /\ lastOp.op = "put" => dest = dest0
         /\ lastOp.op = "get" => dir = dir0
         /\ dir # dir0 => dest = dest0
         /\ dest # dest0 => dir = dir0

\* an encrypt run has ended, the destination of an earlier decrypt run intact
OneActionWitness ==
    /\ args.flag_encrypt
    /\ pc = "done"
    /\ outcome = "encrypted"
    /\ dir # dir0
    /\ dest0.exists
    /\ dest = dest0


\* C13: an encrypt run that meets no fault on a source within the size
\* limit ends with "encrypted" whatever the data map file held before, and
\* then the file holds exactly the data map of this source; a decrypt run
\* that follows, with the directory untouched and no fault, writes the bytes
\* of the last encrypted source to the destination.
SilentOverwrite ==
    /\ ( /\ args.flag_encrypt
         /\ source.exists
         /\ Len(source.bytes) <= MAX_FILE_SIZE
         /\ ~faulted
         /\ pc \in {"done", "panicked"} )
       => ( /\ pc = "done"
            /\ outcome = "encrypted"
            /\ dir[data_map_file] = serialise(DataMapOf(source.bytes))
            /\ lastEnc = [valid |-> TRUE, bytes |-> source.bytes] )
    /\ ( /\ args.flag_decrypt
         /\ lastEnc.valid
         /\ ~faulted
         /\ pc \in {"done", "panicked"} )
       => ( /\ pc = "done"
            /\ outcome = "decrypted"
            /\ deserialise(dir[data_map_file]) = DataMapOf(lastEnc.bytes)
            /\ dest = File(lastEnc.bytes) )

\* the data map of another file, two chunks long, has been replaced
SilentOverwriteWitness ==
    /\ args.flag_encrypt
    /\ pc = "done"
    /\ outcome = "encrypted"
    /\ data_map_file \in DOMAIN dir0
    /\ deserialise(dir0[data_map_file]).some
    /\ Len(deserialise(dir0[data_map_file]).chunks) = 2
    /\ dir0[data_map_file] # dir[data_map_file]
    /\ dir[data_map_file] = serialise(DataMapOf(source.bytes))
    /\ source.bytes # <<>>


\* C14, as claimed: the destination is as the invocation found it while the
\* session reads, and after a get that failed.
DestAfterRead ==
    /\ pc = "d_read" => dest = dest0
    /\ (pc = "panicked" /\ lastOp.op = "get" /\ ~lastOp.res.ok) => dest = dest0

\* C14, amended: the destination is created, empty, after the data map has
\* deserialised and before the session issues its first get; it is as the
\* invocation found it up to then, it is empty while the session reads, and
\* it is left empty when a get fails.
DestBeforeRead ==
    /\ pc \in {"d_open", "d_load", "d_parse", "d_create"} => dest = dest0
    /\ pc = "d_read" => (data_map.some /\ dest = File(<<>>))
    /\ lastOp.op = "get" => dest.exists
    /\ (pc = "panicked" /\ lastOp.op = "get" /\ ~lastOp.res.ok) => dest = File(<<>>)

\* a missing chunk has failed the read; the bytes of an earlier decrypt run
\* are gone from the destination
DestBeforeReadWitness ==
    /\ pc = "panicked"
    /\ lastOp.op = "get"
    /\ lastOp.res = Err("NotFound")
    /\ dest0.exists
    /\ dest0.bytes # <<>>
    /\ dest = File(<<>>)


\* C15: after a successful put the file at the address holds exactly the
\* bytes of that put, whatever it held before; and a get that meets no fault,
\* at an address whose last put succeeded, returns exactly the bytes of that
\* last put.
PutOverwrites ==
    /\ (lastOp.op = "put" /\ lastOp.res.ok)
       => FileAt(dir, calculate_path(lastOp.name)) = File(lastOp.data)
    /\ ( /\ lastOp.op = "get"
         /\ lastOp.fault = NoFault
         /\ lastOp.name \in DOMAIN putLog
         /\ putLog[lastOp.name].ok )
       => lastOp.res = Ok(putLog[lastOp.name].data)

\* a shorter content has replaced a longer one
PutOverwritesWitness ==
    /\ lastOp.op = "put"
    /\ lastOp.res.ok
    /\ lastOp.before.exists
    /\ Len(lastOp.before.bytes) > Len(lastOp.data)
    /\ lastOp.data # <<>>
    /\ dir[calculate_path(lastOp.name)] = lastOp.data


\* C16: no step of the program removes a file from the storage directory:
\* but for the interventions of the environment, the set of file names in
\* the directory only grows.
ChunksKept == [][envs' = envs => DOMAIN dir \subseteq DOMAIN dir']_vars

\* an encrypt run has ended; a chunk of an earlier run, which its data map
\* does not reference, is still there
ChunksKeptWitness ==
    /\ args.flag_encrypt
    /\ pc = "done"
    /\ outcome = "encrypted"
    /\ \E p \in DOMAIN dir0 \ {data_map_file} :
         /\ p \in DOMAIN dir
         /\ \A i \in 1..Len(data_map.chunks) :
               p # calculate_path(data_map.chunks[i].hash)


\* main's positions in program order
Rank(p) ==
    CASE p = "idle" -> 0
      [] p = "e_guard" -> 1
      [] p = "e_open" -> 2
      [] p = "e_meta" -> 3
      [] p = "e_read" -> 4
      [] p = "e_write" -> 5
      [] p = "e_put" -> 6
      [] p = "e_dm_create" -> 7
      [] p = "e_dm_write" -> 8
      [] p = "d_guard" -> 9
      [] p = "d_open" -> 10
      [] p = "d_load" -> 11
      [] p = "d_parse" -> 12
      [] p = "d_create" -> 13
      [] p = "d_read" -> 14
      [] p = "done" -> 15
      [] p = "panicked" -> 15

\* C17: an invocation that has started comes to its end, and the end it
\* leaves from is "done", the position main reaches by returning after its
\* work or after a printed error; every step takes main to a later position,
\* but for the session's chunk loop, which stays only when the storage call
\* returned Ok and one chunk less is left; no step is taken again after it
\* failed.
Terminates ==
    /\ (pc # "idle") ~> (pc \in {"done", "panicked"})
    /\ [][/\ (pc # "idle" /\ pc' = "idle") => pc = "done"
          /\ (pc # "idle" /\ pc' # "idle")
               => \/ Rank(pc') > Rank(pc)
                  \/ /\ pc' = pc
                     /\ pc \in {"e_put", "d_read"}
                     /\ lastOp'.res.ok
                     /\ Len(queue') = Len(queue) - 1]_vars

\* addresses the frame of a put is looked at: those of the stored chunks, and
\* byte sequences whose hex digits run together once a byte takes one character
Addresses == StoreNames \cup {<<0, 33>>, <<1, 16>>, <<17, 0>>, <<1, 1, 0>>}

\* C18: distinct addresses have distinct paths, and a put at one address,
\* failed or not, leaves what get returns at every other address as it was.
PutFrame ==
    /\ \A a, b \in Addresses : a # b => calculate_path(a) # calculate_path(b)
    /\ [][lastOp'.op = "put"
            => \A b \in (StoreNames \cup {<<0, 33>>}) \ {lastOp'.name} :
                 get(dir', b, NoFault) = get(dir, b, NoFault)]_vars

\* a put has succeeded while another address holds the other bytes of its own
\* last put
PutFrameWitness ==
    /\ lastOp.op = "put"
    /\ lastOp.res.ok
    /\ \E b \in StoreNames \ {lastOp.name} :
         /\ b \in DOMAIN putLog
         /\ putLog[b].ok
         /\ putLog[b].data # <<>>
         /\ putLog[b].data # lastOp.data
         /\ get(dir, b, NoFault) = Ok(putLog[b].data)


\* C19: no address has the path of the data map file: the sample addresses,
\* among them four-byte ones whose paths are as long as "data_map", and every
\* address a chunk was put at; and the data map file changes only in the two
\* steps that persist the data map (File::create and write_all), the
\* environment's own changes apart.
DataMapUntouched ==
    /\ \A a \in Addresses \cup {<<>>, <<218, 10, 10, 186>>, <<13, 10, 10, 11>>} :
         calculate_path(a) # data_map_file
    /\ [][/\ \A a \in DOMAIN putLog' : calculate_path(a) # data_map_file
          /\ FileAt(dir', data_map_file) # FileAt(dir, data_map_file)
               => \/ pc \in {"e_dm_create", "e_dm_write"}
                  \/ envs' # envs]_vars

\* two chunks were put over an older store and the data map file of the
\* earlier encrypt run is as it was
DataMapUntouchedWitness ==
    /\ pc = "e_dm_create"
    /\ lastOp.op = "put"
    /\ lastOp.res.ok
    /\ Len(data_map.chunks) = 2
    /\ data_map_file \in DOMAIN dir0
    /\ dir[data_map_file] = dir0[data_map_file]
    /\ dir[data_map_file] # <<>>
    /\ dir # dir0


\* C20: an encrypt run that has failed at opening the source, at its metadata
\* or read, or at the size check has called no put and left the directory,
\* data map file and chunk files, byte for byte as it found it; where the last
\* encrypt run before it succeeded, the data map file still holds that run's
\* data map and every chunk file that run's chunk, which is what a decrypt run
\* reads.
EarlyFailureKeeps ==
    ( /\ args.flag_encrypt
      /\ outcome \in {"SourceUnreadable", "SourceReadError", "FileTooLarge"} )
    => /\ dir = dir0
       /\ dest = dest0
       /\ lastOp = NoOp
       /\ lastEnc.valid
            => LET chunks == EncryptedChunks(lastEnc.bytes)
               IN  /\ FileAt(dir, data_map_file)
                        = File(serialise(DataMapOf(lastEnc.bytes)))
                   /\ \A i \in 1..Len(chunks) :
                        FileAt(dir, calculate_path(generate_address(chunks[i])))
                          = File(chunks[i])

\* after a two-chunk file was encrypted, an encrypt run has failed to open
\* its source and ended
EarlyFailureWitness ==
    /\ args.flag_encrypt
    /\ pc = "done"
    /\ outcome = "SourceUnreadable"
    /\ lastEnc.valid
    /\ Len(lastEnc.bytes) = CHUNK_SIZE + 1
    /\ data_map_file \in DOMAIN dir
    /\ dir = dir0

====
